---- MODULE Spec2Model ----
(***************************************************************************)
(* A model of libmv's video stabilisation tool (src/tools/stabilize.cc):   *)
(* main, the four relative-matrix chain builders, the robust estimator     *)
(* they call, and Stabilize; and of the point preconditioner exercised by  *)
(* src/libmv/multiview/fundamental_test.cc.                                *)
(***************************************************************************)
EXTENDS Integers, Sequences, FiniteSets, TLC

(***************************************************************************)
(* Bounds of the model.                                                    *)
(***************************************************************************)
\* image ids of the match set are drawn from 1..MaxImageId
MaxImageId == 3
\* a pair of images has 0..MaxCorr correspondences
MaxCorr == 4
\* the robust estimator's hard iteration cap
HardCap == 8
\* the preconditioner is applied to 1..MaxPts points with coordinates 0..MaxCoord
MaxPts == 4
MaxCoord == 3
MaxShift == 1
MaxDim == 3
MaxCols == 2

(***************************************************************************)
(* Program constants.                                                      *)
(***************************************************************************)
\* enum eGEOMETRIC_TRANSFORMATION
EUCLIDEAN == 0
SIMILARITY == 1
AFFINE == 2
HOMOGRAPHY == 3
\* std::string::npos and the wrapped value of size_t(0) - 1: a value above
\* every length the model reaches (2^64 - 1 in the program)
NPOS == 2147483647

(***************************************************************************)
(* cv::Matx33d: 3x3 matrices, here over the integers.  The estimators'     *)
(* results are drawn from matrices of determinant 1 or -1, on which        *)
(* inversion is exact.                                                     *)
(***************************************************************************)
Eye == <<<<1, 0, 0>>, <<0, 1, 0>>, <<0, 0, 1>>>>
Zeros == <<<<0, 0, 0>>, <<0, 0, 0>>, <<0, 0, 0>>>>

\* operator* of cv::Matx33d
Mul(A, B) ==
  [r \in 1..3 |-> [c \in 1..3 |->
      A[r][1] * B[1][c] + A[r][2] * B[2][c] + A[r][3] * B[3][c]]]

Det(A) ==
    A[1][1] * (A[2][2] * A[3][3] - A[2][3] * A[3][2])
  - A[1][2] * (A[2][1] * A[3][3] - A[2][3] * A[3][1])
  + A[1][3] * (A[2][1] * A[3][2] - A[2][2] * A[3][1])

\* index of the two rows (columns) other than k, cyclically
Nxt(k) == (k % 3) + 1
Nxt2(k) == ((k + 1) % 3) + 1

\* the (r, c) cofactor of A
Cof(A, r, c) ==
    A[Nxt(r)][Nxt(c)] * A[Nxt2(r)][Nxt2(c)]
  - A[Nxt(r)][Nxt2(c)] * A[Nxt2(r)][Nxt(c)]

\* cv::Matx33d::inv(): the inverse, or the zero matrix when A is singular
Inv(A) ==
  LET d == Det(A) IN
  IF d = 0 THEN Zeros
  ELSE [r \in 1..3 |-> [c \in 1..3 |-> Cof(A, c, r) \div d]]

\* a quarter turn, a unit translation along x and a unit shear: what the
\* estimators may return
Rot90 == <<<<0, -1, 0>>, <<1, 0, 0>>, <<0, 0, 1>>>>
TransX == <<<<1, 0, 1>>, <<0, 1, 0>>, <<0, 0, 1>>>>
Shear == <<<<1, 1, 0>>, <<0, 1, 0>>, <<0, 0, 1>>>>
TransformValues == {Rot90, TransX, Shear}
\* what a read of uninitialised or out-of-bounds matrix storage may yield
GarbageValues == {Zeros, TransX}

(***************************************************************************)
(* std::string, as a sequence of characters, positions counted from 0.     *)
(***************************************************************************)
\* the characters of the file names and folders of the model, by code
CharCode == [c \in {".", "/", "_", "a", "b", "c", "d", "e", "f", "g", "j", "o", "p", "s", "t"} |->
  CASE c = "." -> 46 [] c = "/" -> 47 [] c = "_" -> 95 [] c = "a" -> 97
    [] c = "b" -> 98 [] c = "c" -> 99 [] c = "d" -> 100 [] c = "e" -> 101
    [] c = "f" -> 102 [] c = "g" -> 103 [] c = "j" -> 106 [] c = "o" -> 111
    [] c = "p" -> 112 [] c = "s" -> 115 [] c = "t" -> 116]

\* operator< of std::string: lexicographic on the characters
RECURSIVE StrLess(_, _)
StrLess(s, t) ==
  IF t = <<>> THEN FALSE
  ELSE IF s = <<>> THEN TRUE
  ELSE IF CharCode[Head(s)] # CharCode[Head(t)]
       THEN CharCode[Head(s)] < CharCode[Head(t)]
  ELSE StrLess(Tail(s), Tail(t))

\* std::sort(files.begin(), files.end())
RECURSIVE SortFiles(_)
SortFiles(fs) ==
  IF fs = <<>> THEN <<>>
  ELSE LET least == CHOOSE k \in 1..Len(fs) :
                      \A l \in 1..Len(fs) : ~StrLess(fs[l], fs[k])
       IN <<fs[least]>> \o
          SortFiles([k \in 1..(Len(fs) - 1) |-> IF k < least THEN fs[k] ELSE fs[k + 1]])

\* s.rfind(ch): the last position of ch in s, or npos
RFind(s, ch) ==
  IF \E k \in 1..Len(s) : s[k] = ch
  THEN (CHOOSE k \in 1..Len(s) : s[k] = ch /\ \A l \in (k + 1)..Len(s) : s[l] # ch) - 1
  ELSE NPOS

\* s.substr(pos, n) for pos <= s.size(); it throws std::out_of_range otherwise
Substr(s, pos, n) ==
  LET len == IF n < Len(s) - pos THEN n ELSE Len(s) - pos
  IN SubSeq(s, pos + 1, pos + len)

\* ReplaceFolder, the branch without WIN32
ReplaceFolder(s, new_folder) ==
  IF new_folder = <<>> THEN s
  ELSE LET n == RFind(s, "/")
           nf == IF RFind(new_folder, "/") # Len(new_folder) - 1
                 THEN new_folder \o <<"/">> ELSE new_folder
       IN IF n # NPOS THEN nf \o Substr(s, n + 1, Len(s)) ELSE nf \o s

\* DEFINE_string(os, "_stab", ...), shortened to its first and last letters
FLAGS_os == <<"_", "s", "t">>

\* whether the second substr of the output name throws: rfind(".") is npos
PathThrows(file) == RFind(file, ".") > Len(file)

\* the name Stabilize writes frame `file` to
OutputPath(file, folder) ==
  ReplaceFolder(Substr(file, 0, RFind(file, ".")), folder)
    \o FLAGS_os
    \o Substr(file, RFind(file, "."), Len(file))

\* the image files and output folders the runs are given
FileNames == {<<"b", ".", "p">>, <<"d", "/", "a", ".", "j">>, <<"g">>}
OutFolders == {<<".", "/">>, <<"o">>, <<>>}

\* every list of distinct file names, in any order (argv before the sort)
FileLists ==
  UNION {{fs \in [1..n -> FileNames] : \A k, l \in 1..n : k # l => fs[k] # fs[l]} :
           n \in 0..Cardinality(FileNames)}

(***************************************************************************)
(* The state of one run of the tool.                                       *)
(***************************************************************************)
VARIABLES
  pc,                   \* where the run is
  files,                \* main's files
  FLAGS_of,             \* the output folder
  FLAGS_transformation, \* the model family
  images,               \* matches.get_images(), a std::set of image ids
  Hs,                   \* the chain of relative matrices
  E,                    \* the chain builder's local Mat3
  image_iter,           \* the chain builder's iterators, as positions in
  prev_image_iter,      \*   the ascending order of images (end() is size + 1)
  cols,                 \* xs2[0].cols() of the current pair
  est,                  \* the robust estimator's state
  iteration,            \* its iteration count
  best_inliers,         \* the inlier count of its best candidate
  calls,                \* history: the robust-estimator calls made
  visited,              \* history: the pairs the chain builder has visited
  i,                    \* Stabilize's frame counter
  H,                    \* Stabilize's cumulative transform
  applied,              \* history: the transform Stabilize used per frame
  outputs,              \* history: the images written, <<frame, path>>
  oob,                  \* history: Hs was read at or past Hs.size()
  npc,                  \* where the preconditioner test is
  points,               \* its 2xN points, a sequence of columns <<x, y>>
  cond,                 \* the conditioning transform T
  normalized,           \* the points after T
  mean,                 \* their mean along each row
  variance,             \* their variance along each row
  fund,                 \* the fundamental-matrix test: its points, system and F
  proj                  \* HomogeneousToEuclidean_: its matrices and pointers

vars == <<pc, files, FLAGS_of, FLAGS_transformation, images, Hs, E,
          image_iter, prev_image_iter, cols, est, iteration, best_inliers,
          calls, visited, i, H, applied, outputs, oob,
          npc, points, cond, normalized, mean, variance, fund, proj>>

chainVars == <<Hs, E, image_iter, prev_image_iter, cols, calls, visited>>
estVars == <<est, iteration, best_inliers>>
stabVars == <<i, H, applied, outputs, oob>>
inputVars == <<FLAGS_of, FLAGS_transformation, images>>
normVars == <<npc, points, cond, normalized, mean, variance>>
auxVars == <<fund, proj>>

\* matches.NumImages()
NumImages == Cardinality(images)

\* the k-th image id in the ascending order a std::set iterates in, k from 1
RECURSIVE ImageAt(_, _)
ImageAt(S, k) ==
  LET least == CHOOSE x \in S : \A y \in S : x <= y
  IN IF k = 1 THEN least ELSE ImageAt(S \ {least}, k - 1)

\* a loop that stops one pair early
AtEndEarly(it) == it >= NumImages

\* image_iter != matches.get_images().end(), negated
AtEnd(it) == it > NumImages

\* every builder asking for two correspondences, as the first two do
MinimalCardinalityAllTwo(t) == 2

\* the correspondence count each chain builder requires of a pair
MinimalCardinality(t) ==
  CASE t = EUCLIDEAN -> 2
    [] t = SIMILARITY -> 2
    [] t = AFFINE -> 3
    [] t = HOMOGRAPHY -> 4

\* MatToMatx: the element-wise copy of a Mat3 into a cv::Matx33d
MatToMatx(mat3) == [j \in 1..3 |-> [k \in 1..3 |-> mat3[j][k]]]

\* size_t(n) - 1, which wraps at 0
SizeMinusOne(n) == IF n = 0 THEN NPOS ELSE n - 1

\* no preconditioner test is under way
NormIdle ==
  /\ npc = "idle"
  /\ points = <<>>
  /\ cond = <<>>
  /\ normalized = <<>>
  /\ mean = <<>>
  /\ variance = <<>>

\* no fundamental-matrix test is under way
FundIdle == fund = [pc |-> "idle"]

\* no call of HomogeneousToEuclidean_ is under way
ProjIdle == proj = [pc |-> "idle"]

\* the locals of the tool before main has run
ToolLocals ==
  /\ Hs = <<>>
  /\ E = [init |-> FALSE, val |-> Zeros]
  /\ image_iter = 1
  /\ prev_image_iter = 1
  /\ cols = 0
  /\ est = "Idle"
  /\ iteration = 0
  /\ best_inliers = 0
  /\ calls = 0
  /\ visited = <<>>
  /\ i = 0
  /\ H = Eye
  /\ applied = <<>>
  /\ outputs = <<>>
  /\ oob = FALSE

\* a run of the tool starts: any file list, output folder, model family and
\* match set
Init ==
  /\ pc = "main"
  /\ files \in FileLists
  /\ FLAGS_of \in OutFolders
  /\ FLAGS_transformation \in EUCLIDEAN..HOMOGRAPHY
  /\ images \in SUBSET (1..MaxImageId)
  /\ ToolLocals
  /\ NormIdle
  /\ FundIdle
  /\ ProjIdle

\* main, up to the call of a chain builder: the files are collected and
\* sorted, the matches imported
MainStart ==
  /\ pc = "main"
  /\ files' = SortFiles(files)
  /\ pc' = "chain_entry"
  /\ UNCHANGED <<auxVars, normVars, inputVars, chainVars, estVars, stabVars>>

\* ComputeRelative...Matrices before its loop: reserve(NumImages() - 1), which
\* throws std::length_error on an empty match set, and the two iterators
ChainBegin ==
  /\ pc = "chain_entry"
  /\ IF NumImages = 0
     THEN pc' = "terminated" /\ UNCHANGED <<image_iter, prev_image_iter>>
     ELSE pc' = "chain_loop" /\ prev_image_iter' = 1 /\ image_iter' = 2
  /\ UNCHANGED <<auxVars, normVars, files, inputVars, Hs, E, cols, calls, visited, estVars, stabVars>>

\* one pass of the loop up to the test of xs2[0].cols(): a pair with too few
\* correspondences is passed over, another one is handed to the estimator
ChainStep ==
  /\ pc = "chain_loop"
  /\ ~AtEnd(image_iter)
  /\ \E n \in 0..MaxCorr :
       /\ cols' = n
       /\ visited' = Append(visited,
            <<ImageAt(images, prev_image_iter), ImageAt(images, image_iter),
              n >= MinimalCardinality(FLAGS_transformation)>>)
       /\ IF n >= MinimalCardinality(FLAGS_transformation)
          THEN /\ pc' = "estimate"
               /\ est' = "Sampling"
               /\ iteration' = 0
               /\ best_inliers' = 0
               /\ calls' = calls + 1
               /\ UNCHANGED <<image_iter, prev_image_iter>>
          ELSE /\ prev_image_iter' = prev_image_iter + 1
               /\ image_iter' = image_iter + 1
               /\ UNCHANGED <<pc, calls, estVars>>
  /\ UNCHANGED <<auxVars, normVars, files, inputVars, Hs, E, stabVars>>

\* the loop ends, the chain builder's locals go out of scope and main goes
\* on to Stabilize
ChainEnd ==
  /\ pc = "chain_loop"
  /\ AtEnd(image_iter)
  /\ pc' = "stabilize_entry"
  /\ E' = [init |-> FALSE, val |-> Zeros]
  /\ cols' = 0
  /\ UNCHANGED <<auxVars, normVars, files, inputVars, Hs, image_iter, prev_image_iter, calls, visited,
                 estVars, stabVars>>

(***************************************************************************)
(* The robust estimator the chain builders call                            *)
(* (Euclidean2DFromCorrespondences2PointRobust and its three siblings).    *)
(***************************************************************************)
\* fixed-point unit of the probabilities below
Scale == 10000
\* double outliers_prob = 1e-2, in units of 1 / Scale
outliers_prob == 100

RECURSIVE Pow(_, _)
Pow(b, e) == IF e = 0 THEN 1 ELSE b * Pow(b, e - 1)

\* (1 - r^m)^k in units of 1 / Scale, q being 1 - r^m in the same units
RECURSIVE FailureAfter(_, _)
FailureAfter(q, k) == IF k = 0 THEN Scale ELSE (FailureAfter(q, k - 1) * q) \div Scale

\* the adaptive bound K = log(eta) / log(1 - r^m) for r = inliers / n, as the
\* least sample count whose failure probability is at most eta; a bound
\* above the hard cap is reported as HardCap + 1
IterationsRequired(inliers, n, m) ==
  IF inliers = 0 THEN HardCap + 1
  ELSE IF inliers = n THEN 0
  ELSE LET q == (Scale * (Pow(n, m) - Pow(inliers, m))) \div Pow(n, m)
           enough == {k \in 1..HardCap : FailureAfter(q, k) <= outliers_prob}
       IN IF enough = {} THEN HardCap + 1
          ELSE CHOOSE k \in enough : \A l \in enough : k <= l

\* a loop whose count of iterations is left out of the stop test
StopNoProgress(iter, K) == iter > K

\* whether the Sampling/Scoring loop stops after `iter` iterations
StopSampling(iter, K) == iter > K \/ iter >= HardCap

\* the matrices an estimator of family t can return
FamilyValues(t) ==
  IF t \in {EUCLIDEAN, SIMILARITY} THEN {Rot90, TransX} ELSE TransformValues

\* Sampling: a minimal subset is drawn and a candidate fitted to it
EstSample ==
  /\ pc = "estimate"
  /\ est = "Sampling"
  /\ est' = "Scoring"
  /\ UNCHANGED <<auxVars, normVars, pc, files, inputVars, chainVars, iteration, best_inliers, stabVars>>

\* Scoring: the candidate's inliers are counted (none for a degenerate
\* sample, at least the sample itself otherwise), the best count and the
\* bound K are updated, and the loop stops or samples again
EstScore ==
  /\ pc = "estimate"
  /\ est = "Scoring"
  /\ LET m == MinimalCardinality(FLAGS_transformation) IN
     \E inl \in {0} \cup (m..cols) :
       LET best == IF inl > best_inliers THEN inl ELSE best_inliers
           K == IterationsRequired(best, cols, m)
       IN /\ best_inliers' = best
          /\ iteration' = iteration + 1
          /\ est' = IF StopSampling(iteration + 1, K)
                    THEN (IF best >= m + 1 THEN "Converged" ELSE "Exhausted")
                    ELSE "Sampling"
  /\ UNCHANGED <<auxVars, normVars, pc, files, inputVars, chainVars, stabVars>>

\* the estimator returns and the loop pass ends: E holds the polished model
\* after Converged and is left as it was after Exhausted; the chain builder
\* ignores which it was, appends MatToMatx(E) and advances both iterators.
\* The estimator's counters and the pair's point matrices end with the pass
ChainAppend ==
  /\ pc = "estimate"
  /\ est \in {"Converged", "Exhausted"}
  /\ \E M \in (IF est = "Converged" THEN FamilyValues(FLAGS_transformation)
               ELSE IF E.init THEN {E.val}
               ELSE GarbageValues) :
       /\ E' = [init |-> TRUE, val |-> M]
       /\ Hs' = Append(Hs, MatToMatx(M))
  /\ prev_image_iter' = prev_image_iter + 1
  /\ image_iter' = image_iter + 1
  /\ est' = "Idle"
  /\ iteration' = 0
  /\ best_inliers' = 0
  /\ cols' = 0
  /\ pc' = "chain_loop"
  /\ UNCHANGED <<auxVars, normVars, files, inputVars, calls, visited, stabVars>>

(***************************************************************************)
(* Stabilize.                                                              *)
(***************************************************************************)
\* the product taken in the other order
ComposeRight(M, Hprev) == Mul(Hprev, Inv(M))

\* the relative matrix applied without inverting it
ComposeNoInverse(M, Hprev) == Mul(M, Hprev)

\* H = Hs[i - 1].inv() * H
Compose(M, Hprev) == Mul(Inv(M), Hprev)

\* the entry of Stabilize: the assertion, which a build with NDEBUG leaves
\* out, and the read of image_files[0], which is out of bounds for an empty
\* list
StabilizeBegin ==
  /\ pc = "stabilize_entry"
  /\ \E NDEBUG \in BOOLEAN :
       IF ~NDEBUG /\ Len(files) # SizeMinusOne(Len(Hs))
       THEN pc' = "aborted"
       ELSE IF files = <<>>
       THEN pc' \in {"crashed", "stab_loop"}
       ELSE pc' = "stab_loop"
  /\ H' = Eye
  /\ i' = 0
  /\ UNCHANGED <<auxVars, normVars, files, inputVars, chainVars, estVars, applied, outputs, oob>>

\* one pass of the loop over the frames: H is updated, the image fetched
\* and, unless it is empty, warped by H and written
StabilizeStep ==
  /\ pc = "stab_loop"
  /\ i < Len(files)
  /\ \/ /\ i > 0 /\ i - 1 >= Len(Hs)
        /\ oob' = TRUE
        /\ pc' = "crashed"
        /\ UNCHANGED <<i, H, applied, outputs>>
     \/ \E M \in (IF i = 0 THEN {Eye}
                  ELSE IF i - 1 < Len(Hs) THEN {Hs[i]}
                  ELSE GarbageValues) :
        \E empty \in BOOLEAN :
          LET Hn == IF i = 0 THEN H ELSE Compose(M, H) IN
          /\ oob' = (oob \/ (i > 0 /\ i - 1 >= Len(Hs)))
          /\ H' = Hn
          /\ applied' = Append(applied, Hn)
          /\ i' = i + 1
          /\ IF empty
             THEN UNCHANGED <<pc, outputs>>
             ELSE IF PathThrows(files[i + 1])
             THEN pc' = "terminated" /\ UNCHANGED outputs
             ELSE /\ outputs' = Append(outputs, <<i, OutputPath(files[i + 1], FLAGS_of)>>)
                  /\ UNCHANGED pc
  /\ UNCHANGED <<auxVars, normVars, files, inputVars, chainVars, estVars>>

\* the loop ends, Stabilize returns and main returns 0
StabilizeEnd ==
  /\ pc = "stab_loop"
  /\ i >= Len(files)
  /\ pc' = "done"
  /\ UNCHANGED <<auxVars, normVars, files, inputVars, chainVars, estVars, stabVars>>

Next ==
  \/ MainStart
  \/ ChainBegin
  \/ ChainStep
  \/ EstSample
  \/ EstScore
  \/ ChainAppend
  \/ ChainEnd
  \/ StabilizeBegin
  \/ StabilizeStep
  \/ StabilizeEnd

Spec == Init /\ [][Next]_vars


(***************************************************************************)
(* One call of the robust estimator on its own: the tool as it stands when *)
(* the first pair of a two-image match set is handed to the estimator.     *)
(***************************************************************************)
EstInit ==
  /\ pc = "estimate"
  /\ files = <<>>
  /\ FLAGS_of = <<".", "/">>
  /\ FLAGS_transformation \in EUCLIDEAN..HOMOGRAPHY
  /\ images = {1, 2}
  /\ Hs = <<>>
  /\ E = [init |-> FALSE, val |-> Zeros]
  /\ image_iter = 2
  /\ prev_image_iter = 1
  /\ cols \in MinimalCardinality(FLAGS_transformation)..MaxCorr
  /\ est = "Sampling"
  /\ iteration = 0
  /\ best_inliers = 0
  /\ calls = 1
  /\ visited = <<(<<1, 2, TRUE>>)>>
  /\ i = 0
  /\ H = Eye
  /\ applied = <<>>
  /\ outputs = <<>>
  /\ oob = FALSE
  /\ NormIdle
  /\ FundIdle
  /\ ProjIdle

EstNext ==
  \/ EstSample
  \/ EstScore

\* the call is straight-line code of a single thread that is never
\* suspended: it takes its next step whenever it has one
EstSpec == EstInit /\ [][EstNext]_vars /\ WF_vars(EstNext)

(***************************************************************************)
(* The point preconditioner, as TEST(Fundamental, PreconditionerFromPoints)*)
(* drives it.  Coordinates are exact fractions; the scale s enters the     *)
(* results only through its square, which is a fraction, so a scaled       *)
(* quantity is kept as the fraction it is a multiple of s (or s^2) of.     *)
(***************************************************************************)
\* the target mean squared distance from the origin
TargetMeanSquare == 2

RECURSIVE SumOf(_)
SumOf(seq) == IF seq = <<>> THEN 0 ELSE Head(seq) + SumOf(Tail(seq))

\* row r of a 2xN matrix kept as a sequence of columns
Row(cs, r) == [k \in 1..Len(cs) |-> cs[k][r]]

\* N * (p - centroid) for every column p: the translated points in units
\* of 1 / N
Centered(cs) ==
  [k \in 1..Len(cs) |->
     <<Len(cs) * cs[k][1] - SumOf(Row(cs, 1)), Len(cs) * cs[k][2] - SumOf(Row(cs, 2))>>]

\* the sum over the points of the squared distance from the centroid, in
\* units of 1 / N^2
SquareSum(cs) ==
  SumOf([k \in 1..Len(cs) |->
           Centered(cs)[k][1] * Centered(cs)[k][1] + Centered(cs)[k][2] * Centered(cs)[k][2]])

\* PreconditionerFromPoints: T = diag(s, s, 1) * translate(-centroid) with
\* s^2 * (mean squared distance from the centroid) = 2, that is
\* s^2 = 2 N^3 / SquareSum; T is kept as s^2 and N * centroid
PreconditionerFromPoints(cs) ==
  [s2num |-> TargetMeanSquare * Len(cs) * Len(cs) * Len(cs),
   s2den |-> SquareSum(cs),
   n |-> Len(cs),
   shift |-> <<SumOf(Row(cs, 1)), SumOf(Row(cs, 2))>>]

\* ApplyTransformationToPoints: column k becomes s * (p_k - centroid), kept
\* as N * (p_k - centroid), a multiple of s / N
ApplyTransformationToPoints(cs, T) ==
  [k \in 1..Len(cs) |->
     <<T.n * cs[k][1] - T.shift[1], T.n * cs[k][2] - T.shift[2]>>]

\* MeanAndVarianceAlongRows, the mean: of row r of the normalized points, as
\* a fraction of s
MeanAlongRow(ns, T, r) ==
  [num |-> SumOf(Row(ns, r)), den |-> Len(ns) * T.n]

\* MeanAndVarianceAlongRows, the variance: the mean over row r of the
\* squared distance from the row's mean, s^2 multiplied in
VarianceAlongRow(ns, T, r) ==
  LET n == Len(ns)
      sq == SumOf([k \in 1..n |-> ns[k][r] * ns[k][r]])
      sm == SumOf(Row(ns, r))
  IN [num |-> T.s2num * (n * sq - sm * sm),
      den |-> T.s2den * n * n * T.n * T.n]

\* every 2xN point set of 1..MaxPts columns with coordinates 0..MaxCoord
PointSets ==
  UNION {[1..n -> (0..MaxCoord) \X (0..MaxCoord)] : n \in 1..MaxPts}

NormInit ==
  /\ pc = "idle"
  /\ files = <<>>
  /\ FLAGS_of = <<".", "/">>
  /\ FLAGS_transformation = SIMILARITY
  /\ images = {}
  /\ ToolLocals
  /\ npc = "points"
  /\ points \in PointSets
  /\ cond = <<>>
  /\ normalized = <<>>
  /\ mean = <<>>
  /\ variance = <<>>
  /\ FundIdle
  /\ ProjIdle

toolVars == <<pc, files, inputVars, chainVars, estVars, stabVars>>

\* PreconditionerFromPoints(points, &T): a point set whose points all
\* coincide has no scale and is refused as degenerate
NormPrecondition ==
  /\ npc = "points"
  /\ IF SquareSum(points) = 0
     THEN npc' = "degenerate" /\ UNCHANGED cond
     ELSE npc' = "conditioned" /\ cond' = PreconditionerFromPoints(points)
  /\ UNCHANGED <<auxVars, toolVars, points, normalized, mean, variance>>

\* ApplyTransformationToPoints(points, T, &normalized_points)
NormApply ==
  /\ npc = "conditioned"
  /\ normalized' = ApplyTransformationToPoints(points, cond)
  /\ npc' = "applied"
  /\ UNCHANGED <<auxVars, toolVars, points, cond, mean, variance>>

\* MeanAndVarianceAlongRows(normalized_points, &mean, &variance)
NormMeasure ==
  /\ npc = "applied"
  /\ mean' = <<MeanAlongRow(normalized, cond, 1), MeanAlongRow(normalized, cond, 2)>>
  /\ variance' = <<VarianceAlongRow(normalized, cond, 1), VarianceAlongRow(normalized, cond, 2)>>
  /\ npc' = "measured"
  /\ UNCHANGED <<auxVars, toolVars, points, cond, normalized>>

NormNext ==
  \/ NormPrecondition
  \/ NormApply
  \/ NormMeasure

NormSpec == NormInit /\ [][NormNext]_vars

(***************************************************************************)
(* The linear fundamental-matrix estimators, as                            *)
(* TEST(Fundamental, FundamentalFromCorrespondencesLinear) and             *)
(* TEST(Fundamental, FundamentalFromCorrespondences8Point) drive them.     *)
(* Arithmetic is exact.  A smallest singular vector is known up to scale:  *)
(* it is kept as an integer vector of the same direction.  In the          *)
(* normalized system every unknown is kept multiplied by the scale factors *)
(* of its column (s_A s_B, s_A, s_B or 1) and by N, which leaves integer    *)
(* rows; the un-normalization multiplies the same factors back.            *)
(***************************************************************************)
\* the tool is not running
ToolIdle ==
  /\ pc = "idle"
  /\ files = <<>>
  /\ FLAGS_of = <<".", "/">>
  /\ FLAGS_transformation = SIMILARITY
  /\ images = {}
  /\ ToolLocals

\* x1 of the two tests: the 8 grid points, one column per point
GridPoints ==
  <<(<<0, 0>>), (<<0, 1>>), (<<0, 2>>), (<<1, 0>>), (<<1, 1>>), (<<1, 2>>), (<<2, 0>>), (<<2, 1>>)>>

\* x2 of the tests: every point of x1 moved by the same offset (the tests
\* move by <<0, 1>>)
Shifted(cs, t) == [k \in 1..Len(cs) |-> <<cs[k][1] + t[1], cs[k][2] + t[2]>>]

\* the homogeneous vector (x, y, 1) of a point
Homogeneous(p) == <<p[1], p[2], 1>>

\* the homogeneous vector of a normalized point, N * (p - centroid) with N
\* as its last coordinate
NormalizedHomogeneous(p, T) == <<p[1], p[2], T.n>>

\* the conditioning transform as a matrix: N * translate(-centroid), the
\* scale kept apart
ConditioningMatrix(T) ==
  <<(<<T.n, 0, 0 - T.shift[1]>>), (<<0, T.n, 0 - T.shift[2]>>), (<<0, 0, T.n>>)>>

Transpose(A) == [r \in 1..3 |-> [c \in 1..3 |-> A[c][r]]]

Dot(u, v) == SumOf([k \in 1..Len(u) |-> u[k] * v[k]])

\* the row one correspondence (x, y) contributes: the coefficients of
\* F11, F12, F13, F21, ... in y^T F x = 0
EpipolarRow(x, y) == [k \in 1..9 |-> y[((k - 1) \div 3) + 1] * x[((k - 1) % 3) + 1]]

\* the N x 9 system of the correspondences (xs[k], ys[k])
BuildSystem(xs, ys) == [k \in 1..Len(xs) |-> EpipolarRow(xs[k], ys[k])]

\* the solution vector read as a matrix column by column
ReshapeColumnMajor(f) == [r \in 1..3 |-> [c \in 1..3 |-> f[3 * (c - 1) + r]]]

\* the solution vector read as the 3x3 matrix, row by row
Reshape(f) == [r \in 1..3 |-> [c \in 1..3 |-> f[3 * (r - 1) + c]]]

\* the coefficients a candidate direction is made of
Coefficients == {0 - 1, 0, 1}

\* the directions a solution is looked for among: every non-zero vector
CandidateDirections == {f \in [1..9 -> Coefficients] : \E k \in 1..9 : f[k] # 0}

\* |A f|^2
Residual2(A, f) == SumOf([k \in 1..Len(A) |-> Dot(A[k], f) * Dot(A[k], f)])

\* the minimizers of |A f| over the directions f, |f| = 1: the directions A
\* annihilates when there are any, else those of the least |A f|^2 / |f|^2
SmallestSingularVectors(A) ==
  LET null == {f \in CandidateDirections : \A k \in 1..Len(A) : Dot(A[k], f) = 0}
  IN IF null # {} THEN null
     ELSE {f \in CandidateDirections :
             \A g \in CandidateDirections :
               Residual2(A, f) * Dot(g, g) <= Residual2(A, g) * Dot(f, f)}

\* un-normalization of a fundamental matrix: F = T_B^T * F_normalized * T_A
Unnormalize(Fn, TA, TB) ==
  Mul(Mul(Transpose(ConditioningMatrix(TB)), Fn), ConditioningMatrix(TA))

\* y_F_x(i) = y^T (F x) for every correspondence of the test
EpipolarResiduals(F, xs, ys) ==
  [k \in 1..Len(xs) |->
     Dot(Homogeneous(ys[k]),
         [r \in 1..3 |-> Dot(F[r], Homogeneous(xs[k]))])]

\* the offsets x2 is moved by
Offsets == (0..MaxShift) \X (0..MaxShift)

FundInit ==
  /\ ToolIdle
  /\ NormIdle
  /\ ProjIdle
  /\ \E m \in {"Linear", "8Point"}, t \in Offsets :
       fund = [pc |-> "start", method |-> m, x1 |-> GridPoints,
               x2 |-> Shifted(GridPoints, t), T1 |-> <<>>, T2 |-> <<>>,
               n1 |-> <<>>, n2 |-> <<>>, A |-> <<>>, F |-> Zeros, y_F_x |-> <<>>]

fundRest == <<toolVars, normVars, proj>>

\* the 8-point estimator conditions each point set
FundNormalize ==
  /\ fund.pc = "start"
  /\ fund.method = "8Point"
  /\ LET TA == PreconditionerFromPoints(fund.x1)
         TB == PreconditionerFromPoints(fund.x2)
     IN fund' = [fund EXCEPT !.pc = "normalized", !.T1 = TA, !.T2 = TB,
                             !.n1 = ApplyTransformationToPoints(fund.x1, TA),
                             !.n2 = ApplyTransformationToPoints(fund.x2, TB)]
  /\ UNCHANGED fundRest

\* one row per correspondence, of the raw points (linear estimator) or of
\* the normalized ones (8-point estimator)
FundBuild ==
  /\ \/ fund.pc = "start" /\ fund.method = "Linear"
     \/ fund.pc = "normalized"
  /\ LET n == Len(fund.x1)
         xs == IF fund.method = "Linear"
               THEN [k \in 1..n |-> Homogeneous(fund.x1[k])]
               ELSE [k \in 1..n |-> NormalizedHomogeneous(fund.n1[k], fund.T1)]
         ys == IF fund.method = "Linear"
               THEN [k \in 1..n |-> Homogeneous(fund.x2[k])]
               ELSE [k \in 1..n |-> NormalizedHomogeneous(fund.n2[k], fund.T2)]
     IN fund' = [fund EXCEPT !.pc = "built", !.A = BuildSystem(xs, ys)]
  /\ UNCHANGED fundRest

\* the system is solved: any of its smallest singular vectors
FundSolve ==
  /\ fund.pc = "built"
  /\ \E f \in SmallestSingularVectors(fund.A) :
       fund' = [fund EXCEPT !.pc = "solved", !.F = Reshape(f)]
  /\ UNCHANGED fundRest

\* the 8-point estimator takes the conditioning back out
FundUnnormalize ==
  /\ fund.pc = "solved"
  /\ fund.method = "8Point"
  /\ fund' = [fund EXCEPT !.pc = "final", !.F = Unnormalize(fund.F, fund.T1, fund.T2)]
  /\ UNCHANGED fundRest

\* the test computes y^T F x for every correspondence
FundEvaluate ==
  /\ \/ fund.pc = "solved" /\ fund.method = "Linear"
     \/ fund.pc = "final"
  /\ fund' = [fund EXCEPT !.pc = "done",
                          !.y_F_x = EpipolarResiduals(fund.F, fund.x1, fund.x2)]
  /\ UNCHANGED fundRest

FundNext ==
  \/ FundNormalize
  \/ FundBuild
  \/ FundSolve
  \/ FundUnnormalize
  \/ FundEvaluate

FundSpec == FundInit /\ [][FundNext]_vars

(***************************************************************************)
(* HomogeneousToEuclidean_<T> on a continuous (d+1) x n matrix X and a     *)
(* continuous d x n matrix x.  A matrix is the sequence of its elements in *)
(* row-major order; a pointer is the number of elements it is past the     *)
(* first element of the matrix it was taken from.  An access outside the   *)
(* matrix is undefined: a read yields any value or ends the run, a write   *)
(* lands outside x or ends the run.  A quotient a / b is kept as <<a, b>>. *)
(***************************************************************************)
\* sizeof(float), sizeof(double): the two instantiations
SizeOfFloat == 4
SizeOfDouble == 8

\* the values of the elements of X (none is 0)
ProjValues == {1, 2}

\* cv::Mat::step of a continuous matrix: the bytes from one row to the next
Step(ncols, sizeofT) == ncols * sizeofT

\* ptr + k on a T*: k elements on
Advance(ptr, k) == ptr + k

\* (*X_col_ptr) / (*h_ptr)
Quotient(a, b) == <<a, b>>

\* the element a pointer into a matrix points at
Deref(mat, ptr) == mat[ptr + 1]

\* the matrices the function is called on: X is (d+1) x n, x is d x n and
\* pre-allocated
ProjInit ==
  /\ ToolIdle
  /\ NormIdle
  /\ FundIdle
  /\ \E d \in 1..MaxDim, n \in 1..MaxCols, sz \in {SizeOfFloat, SizeOfDouble} :
       \E X \in [1..((d + 1) * n) -> ProjValues] :
         proj = [pc |-> "entry", d |-> d, n |-> n, sizeofT |-> sz, X |-> X,
                 x |-> [k \in 1..(d * n) |-> Quotient(0, 1)],
                 h_ptr |-> 0, h_ptr_end |-> 0, X_ptr |-> 0, x_ptr |-> 0,
                 X_col_ptr |-> 0, x_col_ptr |-> 0, x_col_ptr_end |-> 0,
                 wild_read |-> FALSE, wild_write |-> FALSE]

projRest == <<toolVars, normVars, fund>>

\* lines 43-50: h is row d of X, X_ptr and x_ptr the first elements
ProjEnter ==
  /\ proj.pc = "entry"
  /\ proj' = [proj EXCEPT !.pc = "outer",
                          !.h_ptr = proj.d * proj.n,
                          !.h_ptr_end = Advance(proj.d * proj.n, proj.n),
                          !.X_ptr = 0,
                          !.x_ptr = 0]
  /\ UNCHANGED projRest

\* the test of the outer loop and lines 53-54
ProjColumn ==
  /\ proj.pc = "outer"
  /\ IF proj.h_ptr = proj.h_ptr_end
     THEN proj' = [proj EXCEPT !.pc = "returned"]
     ELSE proj' = [proj EXCEPT !.pc = "inner",
                               !.X_col_ptr = proj.X_ptr,
                               !.x_col_ptr = proj.x_ptr,
                               !.x_col_ptr_end =
                                  Advance(proj.x_ptr, proj.d * Step(proj.n, proj.sizeofT))]
  /\ UNCHANGED projRest

\* one pass of the inner loop: *x_col_ptr = (*X_col_ptr) / (*h_ptr), then
\* X_col_ptr += X_rows.step, x_col_ptr += _x.step
ProjStore ==
  /\ proj.pc = "inner"
  /\ proj.x_col_ptr # proj.x_col_ptr_end
  /\ LET readInside == proj.X_col_ptr < Len(proj.X)
         writeInside == proj.x_col_ptr < Len(proj.x)
         moved == [proj EXCEPT !.X_col_ptr = Advance(proj.X_col_ptr, Step(proj.n, proj.sizeofT)),
                               !.x_col_ptr = Advance(proj.x_col_ptr, Step(proj.n, proj.sizeofT)),
                               !.wild_read = proj.wild_read \/ ~readInside,
                               !.wild_write = proj.wild_write \/ ~writeInside]
     IN \/ /\ ~(readInside /\ writeInside)
           /\ proj' = [moved EXCEPT !.pc = "crashed"]
        \/ \E v \in (IF readInside THEN {Deref(proj.X, proj.X_col_ptr)} ELSE ProjValues) :
             proj' = IF writeInside
                     THEN [moved EXCEPT !.x[proj.x_col_ptr + 1] =
                                           Quotient(v, Deref(proj.X, proj.h_ptr))]
                     ELSE moved
  /\ UNCHANGED projRest

\* the inner loop has ended: ++h_ptr, ++X_ptr, ++x_ptr
ProjNextColumn ==
  /\ proj.pc = "inner"
  /\ proj.x_col_ptr = proj.x_col_ptr_end
  /\ proj' = [proj EXCEPT !.pc = "outer",
                          !.h_ptr = Advance(proj.h_ptr, 1),
                          !.X_ptr = Advance(proj.X_ptr, 1),
                          !.x_ptr = Advance(proj.x_ptr, 1)]
  /\ UNCHANGED projRest

ProjNext ==
  \/ ProjEnter
  \/ ProjColumn
  \/ ProjStore
  \/ ProjNextColumn

ProjSpec == ProjInit /\ [][ProjNext]_vars

(***************************************************************************)
(* Properties.                                                             *)
(***************************************************************************)
\* H_0 = identity, H_k = inverse(chain[k]) * H_(k-1), chain[k] being the
\* program's Hs[k - 1]
RECURSIVE Cumulative(_, _)
Cumulative(chain, k) ==
  IF k = 0 THEN Eye ELSE Mul(Inv(chain[k]), Cumulative(chain, k - 1))

\* the frames for which an image was written
WrittenFrames == {outputs[k][1] : k \in 1..Len(outputs)}

\* C1: the transform Stabilize holds at frame i (applied[i + 1]) is the
\* cumulative transform H_i = inverse(Hs[i-1]) * H_(i-1), H_0 = identity, a
\* function of Hs[0..i-1] alone, for every frame whose Hs[0..i-1] exist,
\* whether or not the frames before it were empty; every later frame
\* follows the same recurrence on whatever the read past the chain yields.
C1_CumulativeTransform ==
  \A k \in 1..Len(applied) :
    /\ k - 1 <= Len(Hs) => applied[k] = Cumulative(Hs, k - 1)
    /\ k = 1 => applied[k] = Eye
    /\ k > 1 => \E M \in (IF k - 1 <= Len(Hs) THEN {Hs[k - 1]} ELSE GarbageValues) :
                  applied[k] = Mul(Inv(M), applied[k - 1])

\* C1 witness: frame 1 was empty (nothing written for it), frame 2 was
\* reached with a chain of two non-commuting matrices.
C1_Witness ==
  /\ Len(applied) = 3
  /\ Hs = <<Rot90, TransX>>
  /\ 0 \in WrittenFrames
  /\ 1 \notin WrittenFrames
  /\ applied[3] = Mul(Inv(TransX), Inv(Rot90))

\* the minimal cardinalities the four model families are documented with
ClaimedMinimum(t) ==
  CASE t = EUCLIDEAN -> 2 [] t = SIMILARITY -> 2 [] t = AFFINE -> 3 [] t = HOMOGRAPHY -> 4

\* C2: in each chain builder a pair with fewer correspondences than the
\* family's minimal cardinality (2, 2, 3, 4) makes no estimator call and
\* appends nothing; any other pair makes exactly one call and, when the call
\* returns, exactly one matrix is appended after the ones already there.
C2_SkipBelowMinimum ==
  [][/\ (pc = "chain_loop" /\ pc' # "stabilize_entry") =>
          IF cols' < ClaimedMinimum(FLAGS_transformation)
          THEN calls' = calls /\ Hs' = Hs /\ pc' = "chain_loop"
          ELSE calls' = calls + 1 /\ Hs' = Hs /\ pc' = "estimate"
     /\ pc = "estimate" =>
          /\ calls' = calls
          /\ IF pc' = "estimate" THEN Hs' = Hs
             ELSE Len(Hs') = Len(Hs) + 1 /\ SubSeq(Hs', 1, Len(Hs)) = Hs
    ]_vars

\* C2 witness: the homography builder has passed over one pair and
\* estimated another: one call, one matrix.
C2_Witness ==
  /\ pc = "chain_loop"
  /\ FLAGS_transformation = HOMOGRAPHY
  /\ Len(visited) = 2
  /\ ~visited[1][3] /\ visited[2][3]
  /\ calls = 1
  /\ Len(Hs) = 1

\* the visited pairs that were handed to the estimator
Estimated == {k \in 1..Len(visited) : visited[k][3]}

\* C5: the chain builder visits the pairs (image k, image k+1) of the
\* ascending image order, each once, in order; both cursors advance on
\* every pass, skipped or not; every pair with enough correspondences is
\* estimated and appended; the loop ends after pair numImages - 2.
C5_PairsInOrder ==
  /\ \A k \in 1..Len(visited) :
       /\ k + 1 <= NumImages
       /\ visited[k][1] = ImageAt(images, k)
       /\ visited[k][2] = ImageAt(images, k + 1)
  /\ pc = "chain_loop" =>
       /\ prev_image_iter = Len(visited) + 1
       /\ image_iter = Len(visited) + 2
       /\ Len(Hs) = Cardinality(Estimated)
  /\ pc = "estimate" =>
       /\ prev_image_iter = Len(visited)
       /\ image_iter = Len(visited) + 1
       /\ Len(Hs) = Cardinality(Estimated) - 1
  /\ pc \in {"stabilize_entry", "stab_loop", "done", "aborted", "crashed"} =>
       /\ Len(visited) = NumImages - 1
       /\ Len(Hs) = Cardinality(Estimated)

\* C5 witness: the first pair was skipped, the second one was still visited,
\* estimated and appended, and the loop has ended.
C5_Witness ==
  /\ pc = "stabilize_entry"
  /\ images = {1, 2, 3}
  /\ visited = <<(<<1, 2, FALSE>>), (<<2, 3, TRUE>>)>>
  /\ Len(Hs) = 1

\* C8: for a chain of two identical invertible transforms T, T the
\* transform at frame 2 is inverse(T) * inverse(T), which is inverse(T * T).
C8_ChainOfTwo ==
  \A T \in TransformValues \cup GarbageValues :
    (Det(T) # 0 /\ Hs = <<T, T>> /\ Len(applied) >= 3) =>
      /\ applied[3] = Mul(Inv(T), Inv(T))
      /\ applied[3] = Inv(Mul(T, T))

\* C8 witness: frame 2 was reached with the chain TransX, TransX.
C8_Witness ==
  /\ Hs = <<TransX, TransX>>
  /\ Len(applied) = 3
  /\ applied[3] # Eye

\* C9: every robust-estimation call terminates: the iteration count never
\* passes the hard cap, the loop never samples again once the count exceeds
\* the adaptive bound K or has reached the cap, and from Sampling the call
\* reaches Converged or Exhausted, also when no sample ever has an inlier.
C9_EstimatorTerminates ==
  /\ [](iteration <= HardCap)
  /\ []((pc = "estimate" /\ est = "Sampling") =>
          /\ iteration < HardCap
          /\ iteration <= IterationsRequired(best_inliers, cols,
                              ClaimedMinimum(FLAGS_transformation)))
  /\ (est = "Sampling") ~> (est \in {"Converged", "Exhausted"})

\* C9 witness: a call has ended Exhausted at the hard cap without any sample
\* ever having had an inlier.
C9_Witness ==
  /\ pc = "estimate"
  /\ est = "Exhausted"
  /\ best_inliers = 0
  /\ iteration = HardCap

\* the pair (counted from 1) whose transform is the j-th entry of the chain
PairOfEntry(j) ==
  CHOOSE k \in Estimated : Cardinality({l \in Estimated : l <= k}) = j

\* C3, as claimed: the chain has one entry per consecutive pair and entry k
\* is the transform of the k-th pair, so that no transform sits at an
\* earlier index than its pair's.
C3_EntryPerPair ==
  /\ pc = "chain_loop" =>
       \A j \in 1..Len(Hs) : PairOfEntry(j) = j
  /\ (pc = "stabilize_entry" /\ NumImages >= 1) => Len(Hs) = NumImages - 1

\* C4, as claimed: for a chain built from as many images as there are
\* files, Stabilize reads Hs only below Hs.size().
C4_ReadsInBounds ==
  Len(files) = NumImages => ~oob

\* C6, as claimed: with fewer than 2 files or fewer than 2 images the run
\* ends fatally before any chain builder pass, estimator call or Stabilize
\* pass.
C6_FewImagesFatal ==
  (Len(files) < 2 \/ NumImages < 2) =>
    /\ visited = <<>>
    /\ calls = 0
    /\ pc \notin {"stab_loop", "done"}

\* the part of a file name after its last "/"
BaseName(file) ==
  IF RFind(file, "/") = NPOS THEN file
  ELSE SubSeq(file, RFind(file, "/") + 2, Len(file))

\* the path C7 describes: the folder, a separator when it lacks one, the
\* name without directory and extension, the suffix, the extension
ClaimedPath(file, folder) ==
  LET base == BaseName(file)
      dot == RFind(base, ".")
      stem == IF dot = NPOS THEN base ELSE SubSeq(base, 1, dot)
      ext == IF dot = NPOS THEN <<>> ELSE SubSeq(base, dot + 1, Len(base))
      sep == IF folder # <<>> /\ folder[Len(folder)] = "/" THEN <<>> ELSE <<"/">>
  IN folder \o sep \o stem \o FLAGS_os \o ext

\* C7, as claimed: when Stabilize has returned, one image has been written
\* per input file, in frame order, each at the path described.
C7_OneOutputPerFrame ==
  pc = "done" =>
    /\ Len(outputs) = Len(files)
    /\ \A k \in 1..Len(outputs) :
         outputs[k] = <<k - 1, ClaimedPath(files[k], FLAGS_of)>>

\* C10, as claimed: after conditioning the mean along each axis is 0 and
\* the variance along each axis is 2.
C10_PerAxisVariance ==
  npc = "measured" =>
    /\ mean[1].num = 0
    /\ mean[2].num = 0
    /\ variance[1].num = 2 * variance[1].den
    /\ variance[2].num = 2 * variance[2].den

\* C11: for correspondences that satisfy a fundamental relation exactly (the
\* 8 grid points and the same points moved by one offset), the matrix F the
\* linear and the 8-point estimator return is not zero and y^T F x = 0 for
\* every input correspondence (x, y).
C11_EpipolarConsistency ==
  fund.pc = "done" =>
    /\ fund.F # Zeros
    /\ \A k \in 1..Len(fund.x1) : fund.y_F_x[k] = 0

\* C11 witness: the 8-point estimator has returned an F that is not
\* antisymmetric for the tests' data, x2 = x1 moved by <<0, 1>>, and the 8
\* residuals were computed.
C11_Witness ==
  /\ fund.pc = "done"
  /\ fund.method = "8Point"
  /\ fund.x2 = Shifted(GridPoints, <<0, 1>>)
  /\ Len(fund.y_F_x) = 8
  /\ fund.F # Zeros
  /\ \E r, c \in 1..3 : fund.F[r][c] + fund.F[c][r] # 0

\* C12, as claimed: on every call main makes of Stabilize, for a chain built
\* from as many images as there are files, the precondition asserted at the
\* entry holds: image_files.size() == Hs.size() - 1 in unsigned arithmetic.
C12_AssertedPrecondition ==
  (pc = "stabilize_entry" /\ Len(files) = NumImages) =>
    Len(files) = SizeMinusOne(Len(Hs))

\* C13, as claimed: on a continuous (d+1) x n input X and a pre-allocated
\* continuous d x n output x, for every d >= 1, HomogeneousToEuclidean_
\* reads only elements of X, writes nothing outside x, and when it returns
\* x(i, j) = X(i, j) / X(d, j) for every row i < d and column j < n.
C13_ProjectsEveryColumn ==
  /\ ~proj.wild_read
  /\ ~proj.wild_write
  /\ proj.pc # "crashed"
  /\ proj.pc = "returned" =>
       \A r \in 0..(proj.d - 1), c \in 0..(proj.n - 1) :
         LET q == proj.x[r * proj.n + c + 1]
         IN /\ q[2] # 0
            /\ q[1] * proj.X[proj.d * proj.n + c + 1] = proj.X[r * proj.n + c + 1] * q[2]

====
